---- MODULE Spec2Model ----
(***************************************************************************)
(* Model of utils/daily.ts: the staged resolution of a daily record        *)
(* (getDailyForecast) over the browser cache (localStorage) and the remote *)
(* table horoscope_cache.                                                  *)
(*                                                                         *)
(* Representation.                                                         *)
(*  - A JavaScript string that the code inspects character by character    *)
(*    (a sign label) is a sequence of one-character strings.  The en dash  *)
(*    U+2013 is written "EN", the em dash U+2014 "EM", a tab "TAB".        *)
(*  - A day string "YYYY-MM-DD" is the number of the day since the epoch;  *)
(*    an instant is a number of hours since the epoch.  BadDate is a       *)
(*    string that is no date.                                              *)
(*  - The date column of a row is the instant it denotes, in hours (a      *)
(*    DATE value is the midnight that starts its day).                     *)
(*  - null / undefined of JavaScript are the values Null / Undef.          *)
(***************************************************************************)
EXTENDS Integers, Sequences, FiniteSets, TLC

\* ==========================================================================
\* Characters and strings
\* ==========================================================================
LowerChars == <<"a","b","c","d","e","f","g","h","i","j","k","l","m",
                "n","o","p","q","r","s","t","u","v","w","x","y","z">>
UpperChars == <<"A","B","C","D","E","F","G","H","I","J","K","L","M",
                "N","O","P","Q","R","S","T","U","V","W","X","Y","Z">>

HYPHEN == "-"
ENDASH == "EN"
EMDASH == "EM"
SPACE  == " "
TAB    == "TAB"

\* \s of the regular expressions
IsSpace(c) == c \in {SPACE, TAB}

\* \w of the regular expressions (letters; the labels hold no digit or "_")
IsWordChar(c) ==
  \E i \in 1..26 : c = LowerChars[i] \/ c = UpperChars[i]

toLowerCaseChar(c) ==
  IF \E i \in 1..26 : UpperChars[i] = c
    THEN LowerChars[CHOOSE i \in 1..26 : UpperChars[i] = c]
    ELSE c

toUpperCaseChar(c) ==
  IF \E i \in 1..26 : LowerChars[i] = c
    THEN UpperChars[CHOOSE i \in 1..26 : LowerChars[i] = c]
    ELSE c

\* String.prototype.toLowerCase / toUpperCase
toLowerCase(s) == [i \in 1..Len(s) |-> toLowerCaseChar(s[i])]
toUpperCase(s) == [i \in 1..Len(s) |-> toUpperCaseChar(s[i])]

\* String.prototype.trim
RECURSIVE TrimLeft(_)
TrimLeft(s) ==
  IF s # <<>> /\ IsSpace(Head(s)) THEN TrimLeft(Tail(s)) ELSE s

RECURSIVE TrimRight(_)
TrimRight(s) ==
  IF s # <<>> /\ IsSpace(s[Len(s)])
    THEN TrimRight(SubSeq(s, 1, Len(s) - 1))
    ELSE s

Trim(s) == TrimRight(TrimLeft(s))

\* s.replace(/\s+/g, ' ')
RECURSIVE CollapseSpaces(_)
CollapseSpaces(s) ==
  IF s = <<>> THEN <<>>
  ELSE IF IsSpace(Head(s))
    THEN <<SPACE>> \o CollapseSpaces(TrimLeft(s))
    ELSE <<Head(s)>> \o CollapseSpaces(Tail(s))

\* s.replace(/[EN EM]/g, '-')
DashesToHyphen(s) ==
  [i \in 1..Len(s) |-> IF s[i] \in {ENDASH, EMDASH} THEN HYPHEN ELSE s[i]]

\* s.replace(/EN/g, '-')
EnDashToHyphen(s) ==
  [i \in 1..Len(s) |-> IF s[i] = ENDASH THEN HYPHEN ELSE s[i]]

CuspWord == <<"c","u","s","p">>

\* s.replace(/\s*cusp\s*$/i, ''): the match is the last "cusp" (any case)
\* that only white space follows, with the white space around it.
StripCuspSuffix(s) ==
  LET t == TrimRight(s)
      n == Len(t)
  IN IF n >= 4 /\ toLowerCase(SubSeq(t, n - 3, n)) = CuspWord
       THEN TrimRight(SubSeq(t, 1, n - 4))
       ELSE s

\* /\bcusp\b/i.test(s)
HasCuspWord(s) ==
  \E i \in 1..Len(s) :
    /\ i + 3 <= Len(s)
    /\ toLowerCase(SubSeq(s, i, i + 3)) = CuspWord
    /\ (i = 1 \/ ~IsWordChar(s[i - 1]))
    /\ (i + 3 = Len(s) \/ ~IsWordChar(s[i + 4]))

\* s.split(sep) for a one-character separator
RECURSIVE Split(_, _)
Split(s, sep) ==
  IF \E i \in 1..Len(s) : s[i] = sep
    THEN LET i == CHOOSE j \in 1..Len(s) :
                    s[j] = sep /\ \A k \in 1..(j - 1) : s[k] # sep
         IN <<SubSeq(s, 1, i - 1)>> \o Split(SubSeq(s, i + 1, Len(s)), sep)
    ELSE <<s>>

\* parts.join(sep)
RECURSIVE Join(_, _)
Join(parts, sep) ==
  IF parts = <<>> THEN <<>>
  ELSE IF Len(parts) = 1 THEN parts[1]
  ELSE parts[1] \o <<sep>> \o Join(Tail(parts), sep)

\* seq.filter(Boolean) over strings: the empty string is dropped
RECURSIVE FilterNonEmpty(_)
FilterNonEmpty(seq) ==
  IF seq = <<>> THEN <<>>
  ELSE IF Head(seq) = <<>> THEN FilterNonEmpty(Tail(seq))
  ELSE <<Head(seq)>> \o FilterNonEmpty(Tail(seq))

\* [...new Set(seq)]: first occurrences, in order
RECURSIVE Dedup(_)
Dedup(seq) ==
  IF seq = <<>> THEN <<>>
  ELSE LET front == Dedup(SubSeq(seq, 1, Len(seq) - 1))
           last  == seq[Len(seq)]
       IN IF \E i \in 1..Len(front) : front[i] = last
            THEN front
            ELSE Append(front, last)

\* ==========================================================================
\* String helpers of the source
\* ==========================================================================
toTitleCaseWord(w) ==
  IF w = <<>> THEN <<>>
  ELSE <<toUpperCaseChar(w[1])>> \o toLowerCase(Tail(w))

TitleCasePart(part) ==
  LET words == Split(Trim(part), SPACE)
  IN Join([i \in 1..Len(words) |-> toTitleCaseWord(words[i])], SPACE)

NoLabel == <<"undefined">>

normalizeSignForDaily(input) ==
  IF input = <<>>
    THEN [primaryWithCusp |-> NoLabel, primaryNoCusp |-> <<>>,
          parts |-> <<>>, isCusp |-> FALSE]
    ELSE
      LET s          == Trim(CollapseSpaces(Trim(input)))
          isCusp     == HasCuspWord(s)
          hyphenBase == DashesToHyphen(s)
          noCusp     == Trim(StripCuspSuffix(hyphenBase))
          raw        == Split(noCusp, HYPHEN)
          parts      == FilterNonEmpty([i \in 1..Len(raw) |-> TitleCasePart(raw[i])])
          baseEnDash == Join(parts, ENDASH)
      IN [primaryWithCusp |-> IF isCusp
                                THEN baseEnDash \o <<SPACE, "C", "u", "s", "p">>
                                ELSE NoLabel,
          primaryNoCusp   |-> baseEnDash,
          parts           |-> parts,
          isCusp          |-> isCusp]

\* Mutant of norm: the letter case is kept
normKeepsCase(s) ==
  StripCuspSuffix(DashesToHyphen(CollapseSpaces(Trim(s))))

norm(s) ==
  toLowerCase(StripCuspSuffix(DashesToHyphen(CollapseSpaces(Trim(s)))))

\* Mutant of rowMatchesSign: the attempt is compared as it is
rowMatchesSignRawAttempt(dbSign, attempt) ==
  IF dbSign = <<>> \/ attempt = <<>>
    THEN FALSE
    ELSE norm(dbSign) = attempt

rowMatchesSign(dbSign, attempt) ==
  IF dbSign = <<>> \/ attempt = <<>>
    THEN FALSE
    ELSE norm(dbSign) = norm(attempt)

\* Mutant of buildSignAttemptsForDaily: the components are always tried
buildSignAttemptsWithComponents(inputLabel, allowTrueSignFallback) ==
  LET n     == normalizeSignForDaily(inputLabel)
      withC == IF n.primaryWithCusp # NoLabel
                 THEN <<n.primaryWithCusp, EnDashToHyphen(n.primaryWithCusp)>>
                 ELSE <<>>
      noC   == IF n.primaryNoCusp # <<>>
                 THEN <<n.primaryNoCusp, EnDashToHyphen(n.primaryNoCusp)>>
                 ELSE <<>>
  IN FilterNonEmpty(Dedup(withC \o noC \o FilterNonEmpty(n.parts)))

buildSignAttemptsForDaily(inputLabel, allowTrueSignFallback) ==
  LET n     == normalizeSignForDaily(inputLabel)
      withC == IF n.primaryWithCusp # NoLabel
                 THEN <<n.primaryWithCusp, EnDashToHyphen(n.primaryWithCusp)>>
                 ELSE <<>>
      noC   == IF n.primaryNoCusp # <<>>
                 THEN <<n.primaryNoCusp, EnDashToHyphen(n.primaryNoCusp)>>
                 ELSE <<>>
      comps == IF ~n.isCusp \/ allowTrueSignFallback
                 THEN FilterNonEmpty(n.parts)
                 ELSE <<>>
  IN FilterNonEmpty(Dedup(withC \o noC \o comps))

\* ==========================================================================
\* Values
\* ==========================================================================
Null   == "null"        \* null / undefined content of a column
Undef  == "undefined"   \* an option that is not given
NoDate == -1            \* a date field that is missing (undefined)
EmptyDate == -3         \* a forceDate that is the empty string
BadDate == -2           \* a forceDate string that is no "YYYY-MM-DD" date

Northern == <<"N","o","r","t","h","e","r","n">>
Southern == <<"S","o","u","t","h","e","r","n">>
NH == <<"N","H">>
SH == <<"S","H">>

Aries        == <<"A","r","i","e","s">>
Gemini       == <<"G","e","m","i","n","i">>
GemCanHyphen == <<"G","e","m","i","n","i","-","C","a","n","c","e","r">>
GemCanCuspHyphen ==
  <<"G","e","m","i","n","i","-","C","a","n","c","e","r"," ","C","u","s","p">>
GemCanCuspEnDash ==
  <<"G","e","m","i","n","i","EN","C","a","n","c","e","r"," ","C","u","s","p">>

\* ==========================================================================
\* Hemisphere helpers
\* ==========================================================================
buildHemisphereVariants(hemi) ==
  Dedup(<<hemi, toUpperCase(hemi), toLowerCase(hemi),
          IF hemi = Southern THEN SH ELSE NH>>)

\* hemisphereIn is a string, or <<>> when it is missing
hemiToDB(hemisphereIn) ==
  LET v == toLowerCase(IF hemisphereIn = <<>> THEN Southern ELSE hemisphereIn)
  IN IF v = toLowerCase(Northern) \/ v = toLowerCase(NH)
       THEN Northern
       ELSE Southern

\* ==========================================================================
\* Date helpers
\* ==========================================================================
HoursPerDay == 24

\* The time zones of the model: the offset from UTC, in hours, at instant t.
\* "DST" is a zone that moves its clocks back one hour at instant 90.
UTCOffset(timeZone, t) ==
  CASE timeZone = "UTC"  -> 0
    [] timeZone = "East" -> 10
    [] timeZone = "West" -> -8
    [] timeZone = "DST"  -> IF t < 90 THEN 11 ELSE 10

ymdInTZ(t, timeZone) == (t + UTCOffset(timeZone, t)) \div HoursPerDay

\* Intl's resolved zone is the device's zone; 'UTC' when Intl gives none
getUserTimeZone(deviceZone, intlKnown) ==
  IF intlKnown THEN deviceZone ELSE "UTC"

anchorLocal(t, deviceZone) == (t + UTCOffset(deviceZone, t)) \div HoursPerDay
anchorUTC(t) == t \div HoursPerDay

buildDailyAnchors(t, deviceZone, intlKnown) ==
  LET userTZ        == getUserTimeZone(deviceZone, intlKnown)
      todayUser     == ymdInTZ(t, userTZ)
      yesterdayUser == ymdInTZ(t - HoursPerDay, userTZ)
      tomorrowUser  == ymdInTZ(t + HoursPerDay, userTZ)
      todayUTC      == anchorUTC(t)
      todayLocal    == anchorLocal(t, deviceZone)
  IN Dedup(<<todayUser, todayUTC, todayLocal, yesterdayUser, tomorrowUser>>)

\* ==========================================================================
\* Cache helpers
\* ==========================================================================
\* `daily:${userId ?? 'anon'}:${sign}:${hemi}:${ymd}`
cacheKeyDaily(userId, sign, hemi, ymd) ==
  <<"daily", IF userId = Undef THEN "anon" ELSE userId, sign, hemi, ymd>>

\* JSON.stringify of a row and JSON.parse of a stored text.  A stored text is
\* <<"json", row>> when it parses, <<"garbage">> when JSON.parse throws.
\* Mutant of JSONStringify: the stored copy is stamped as a cached one
JSONStringifyStamped(row) ==
  <<"json", [row EXCEPT !.source_table = "localStorage"]>>

JSONStringify(row) == <<"json", row>>
JSONParses(raw) == raw[1] = "json"
JSONParse(raw) == raw[2]

\* The value read: <<>> for null, <<row>> for a parsed entry.
\* storage: "ok", "absent" (window is undefined), "throws" (localStorage
\* throws on access), "full" (setItem throws, the quota is exceeded; getItem
\* works).
getFromCache(storage, store, key) ==
  IF storage = "absent" THEN <<>>
  ELSE IF storage = "throws" THEN <<>>
  ELSE IF key \notin DOMAIN store THEN <<>>
  ELSE IF ~JSONParses(store[key]) THEN <<>>
  ELSE <<JSONParse(store[key])>>

\* Mutant of setInCache: the write is lost
setInCacheDropsWrite(storage, store, key, value) == store

\* The store after setInCache(key, value)
setInCache(storage, store, key, value) ==
  IF storage = "absent" THEN store
  ELSE IF storage \in {"throws", "full"} THEN store
  ELSE [k \in DOMAIN store \cup {key} |->
          IF k = key THEN JSONStringify(value) ELSE store[k]]

\* Mutant of CacheHitUsable: every entry that parses is returned
CacheHitUsableAnyEntry(cached) == cached # <<>>

\* cached && cached.date && cached.hemisphere && cached.sign
CacheHitUsable(cached) ==
  /\ cached # <<>>
  /\ cached[1].date # NoDate
  /\ cached[1].hemisphere # <<>>
  /\ cached[1].sign # <<>>

\* ==========================================================================
\* The environment: the user, the options of a call, the remote rows
\* ==========================================================================
VARIABLES
  now,           \* the current instant (new Date()), in hours
  deviceZone,    \* the time zone of the device
  intlKnown,     \* whether Intl resolves a time zone
  user,          \* the profile the calls are made for
  db,            \* the rows of the remote table
  storage,       \* state of window.localStorage: "ok", "absent", "throws"
  localStorage,  \* key -> stored text
  calls,         \* the calls of getDailyForecast, by slot
  compare        \* the last direct call of rowMatchesSign, with its result

vars ==
  <<now, deviceZone, intlKnown, user, db, storage, localStorage, calls, compare>>

\* No direct call of rowMatchesSign was made
NoCompare ==
  [called |-> FALSE, dbSign |-> <<>>, attempt |-> <<>>, result |-> FALSE]

GemCanMessy ==
  <<" ","g","e","m","i","n","i","EM","c","a","n","c","e","r","TAB"," ",
    "C","U","S","P"," ">>

\* The profiles: sign label, hemisphere (<<>> when missing), user id
Profile(signIn, hemisphereIn, userId) ==
  [signIn |-> signIn, hemisphereIn |-> hemisphereIn, userId |-> userId]

Profiles ==
  {Profile(Aries, Northern, Undef),
   Profile(GemCanCuspHyphen, SH, "u1"),
   Profile(GemCanHyphen, <<>>, Undef),
   Profile(GemCanMessy, toLowerCase(SH), Undef)}

\* The options of a call: forceDate (NoDate when not given), useCache
\* ("unset", "true", "false"), debug, allowTrueSignFallback
Opts(f, uc, d, a) ==
  [forceDate |-> f, useCache |-> uc, debug |-> d, allowTrueSignFallback |-> a]

OptsSet ==
  {Opts(NoDate, "unset", FALSE, FALSE),
   Opts(NoDate, "unset", FALSE, TRUE),
   Opts(NoDate, "true", TRUE, FALSE),
   Opts(NoDate, "false", FALSE, FALSE),
   Opts(2, "unset", FALSE, TRUE),
   Opts(BadDate, "unset", TRUE, FALSE)}

MaxRows == 2

Row(sign, hemisphere, date, text) ==
  [sign |-> sign, hemisphere |-> hemisphere, date |-> date,
   daily_horoscope |-> text, affirmation |-> Null, deeper_insight |-> ""]

\* The rows the remote table may hold.  With the clock of Clocks day 3 is the
\* local today, day 2 the UTC today and local yesterday, day 0 is older than
\* every anchor.
CandidateRows ==
  {Row(Aries, Northern, 72, "stars"),
   Row(GemCanCuspEnDash, SH, 85, Null),
   Row(Gemini, toLowerCase(Southern), 72, "tides"),
   Row(GemCanHyphen, toUpperCase(Southern), 48, "older"),
   Row(Aries, NH, 0, Null)}

Clocks ==
  {[now |-> 68, deviceZone |-> "East", intlKnown |-> TRUE]}

\* ==========================================================================
\* The remote table horoscope_cache and its two queries
\* ==========================================================================
\* Mutant of OrEmpty: the column is copied as it is
OrEmptyCopies(v) == v

\* `${v || ''}` of a content column
OrEmpty(v) == IF v = Null THEN "" ELSE v

\* The DailyRow built from a raw row
MapRow(r) ==
  [sign            |-> r.sign,
   hemisphere      |-> r.hemisphere,
   date            |-> r.date,
   daily_horoscope |-> OrEmpty(r.daily_horoscope),
   affirmation     |-> OrEmpty(r.affirmation),
   deeper_insight  |-> OrEmpty(r.deeper_insight),
   source_table    |-> "horoscope_cache"]

InSeq(x, seq) == \E i \in 1..Len(seq) : seq[i] = x

\* .in('hemisphere', hemiVariants).gte('date', start).lt('date', endIso)
\* with start = date 00:00Z and end = the next day 00:00Z
RowsForDate(rows, date, hemi) ==
  {r \in rows :
     /\ InSeq(r.hemisphere, buildHemisphereVariants(hemi))
     /\ r.date >= date * HoursPerDay
     /\ r.date < (date + 1) * HoursPerDay}

\* new Date(`${date}T00:00:00.000Z`).toISOString() throws a RangeError for a
\* string that is no date
DateParses(date) == date >= 0

LatestLimit == 200

\* .in('hemisphere', hemiVariants).order('date', desc).limit(200): the sets of
\* rows the query may return (rows of equal date come in any order)
LatestWindows(rows, hemi) ==
  LET cand == {r \in rows : InSeq(r.hemisphere, buildHemisphereVariants(hemi))}
  IN IF Cardinality(cand) <= LatestLimit
       THEN {cand}
       ELSE {w \in SUBSET cand :
               /\ Cardinality(w) = LatestLimit
               /\ \A r \in w, q \in cand \ w : r.date >= q.date}

\* The first attempt that some row matches: 0 when none does
FirstMatchingAttempt(rows, signAttempts) ==
  LET found == [k \in 1..Len(signAttempts) |->
                  \E r \in rows : rowMatchesSign(r.sign, signAttempts[k])]
  IN IF \E k \in 1..Len(signAttempts) : found[k]
       THEN CHOOSE k \in 1..Len(signAttempts) :
              found[k] /\ \A j \in 1..(k - 1) : ~found[j]
       ELSE 0

\* rows.find(r => rowMatchesSign(r.sign, cand)) over an unordered result: any
\* matching row may come first
FindRows(rows, cand) == {r \in rows : rowMatchesSign(r.sign, cand)}

\* data.find(...) over a result ordered by date, descending: a matching row of
\* the latest date
FindLatestRows(rows, cand) ==
  {r \in FindRows(rows, cand) : \A q \in FindRows(rows, cand) : r.date >= q.date}

\* ==========================================================================
\* getDailyForecast
\* ==========================================================================
Calls == {1, 2}

\* A call that has not started.  The fields after `result` record what the
\* call did, for the properties: the stage that produced the result (1 cache,
\* 2 date-scoped, 3 latest fallback, 0 none), the remote queries issued, the
\* number of date-scoped fetches that failed, whether the fallback failed, the
\* cache key hit or written, the attempt that matched; and of the call before
\* it in the slot: whether it returned and had the same options (again), and
\* then the remote queries it issued (before) and its stage (beforeStage).
IdleCall ==
  [pc |-> "idle",
   signIn |-> <<>>, hemisphereIn |-> <<>>, userId |-> Undef,
   forceDate |-> NoDate, useCache |-> "unset", debug |-> FALSE,
   allowTrueSignFallback |-> FALSE,
   hemi |-> Southern, anchors |-> <<>>, signAttempts |-> <<>>,
   i |-> 0, result |-> <<>>,
   stage |-> 0, nList |-> 0, nProbe |-> 0, nLatest |-> 0,
   nErr |-> 0, latestErr |-> FALSE, key |-> <<>>, cand |-> <<>>,
   again |-> FALSE, before |-> 0, beforeStage |-> 0]

\* The remote queries a call has issued
Remote(rec) == rec.nList + rec.nProbe + rec.nLatest

\* The options a call was given
OptsOf(rec) ==
  Opts(rec.forceDate, rec.useCache, rec.debug, rec.allowTrueSignFallback)

\* Mutant of KeysInOrder: sign attempts outside, anchors inside
KeysAttemptsOutside(userId, signAttempts, hemi, anchors) ==
  LET n == Len(anchors)
  IN [k \in 1..(n * Len(signAttempts)) |->
        cacheKeyDaily(userId, signAttempts[((k - 1) \div n) + 1], hemi,
                      anchors[((k - 1) % n) + 1])]

\* The cache keys of the cache-first pass, in the order the loops visit them:
\* anchors outside, sign attempts inside
KeysInOrder(userId, signAttempts, hemi, anchors) ==
  LET m == Len(signAttempts)
  IN [k \in 1..(Len(anchors) * m) |->
        cacheKeyDaily(userId, signAttempts[((k - 1) % m) + 1], hemi,
                      anchors[((k - 1) \div m) + 1])]

\* Mutant of CacheFirstPass: the pass goes on after a hit and returns the last
\* usable entry
CacheFirstPassKeepsLooking(st, store, keys) ==
  LET usable == [k \in 1..Len(keys) |->
                   CacheHitUsable(getFromCache(st, store, keys[k]))]
  IN IF \E k \in 1..Len(keys) : usable[k]
       THEN CHOOSE k \in 1..Len(keys) :
              usable[k] /\ \A j \in (k + 1)..Len(keys) : ~usable[j]
       ELSE 0

\* The index in `keys` of the entry the cache-first pass returns, 0 if none
CacheFirstPass(st, store, keys) ==
  LET usable == [k \in 1..Len(keys) |->
                   CacheHitUsable(getFromCache(st, store, keys[k]))]
  IN IF \E k \in 1..Len(keys) : usable[k]
       THEN CHOOSE k \in 1..Len(keys) :
              usable[k] /\ \A j \in 1..(k - 1) : ~usable[j]
       ELSE 0

\* Mutant of CacheEnabled: the cache is read whatever the flag
CacheEnabledAlways(useCache) == TRUE

\* opts?.useCache !== false
CacheEnabled(useCache) == useCache # "false"

\* fetchRowsForDate(anchors[i], ...) up to its await: the query is issued,
\* unless computing the end of the day throws
BeginFetchRowsForDate(rec, i) ==
  IF DateParses(rec.anchors[i])
    THEN [rec EXCEPT !.pc = "awaitList", !.i = i, !.nList = @ + 1]
    ELSE [rec EXCEPT !.pc = "threw", !.i = i]

\* fetchLatestForSignAndHemi(...) up to its await
BeginFetchLatest(rec) ==
  [rec EXCEPT !.pc = "awaitLatest", !.nLatest = @ + 1]

\* Mutant of NextAnchor: the fallback is tried as soon as one anchor gave no
\* match
NextAnchorGoesToFallback(rec) == BeginFetchLatest(rec)

\* `continue` of the anchor loop: the next anchor, or the fallback after the
\* last one
NextAnchor(rec) ==
  IF rec.i < Len(rec.anchors)
    THEN BeginFetchRowsForDate(rec, rec.i + 1)
    ELSE BeginFetchLatest(rec)

\* Mutant of AnchorsOf: the forced day is tried before the days of the clock
AnchorsOfKeepsClock(forceDate, clock) ==
  IF forceDate \notin {NoDate, EmptyDate}
    THEN Dedup(<<forceDate>> \o
               buildDailyAnchors(clock.now, clock.deviceZone, clock.intlKnown))
    ELSE buildDailyAnchors(clock.now, clock.deviceZone, clock.intlKnown)

\* opts?.forceDate ? [opts?.forceDate] : buildDailyAnchors(today): undefined
\* and the empty string are falsy
AnchorsOf(forceDate, clock) ==
  IF forceDate \notin {NoDate, EmptyDate}
    THEN <<forceDate>>
    ELSE buildDailyAnchors(clock.now, clock.deviceZone, clock.intlKnown)

\* The call from its entry to its first await or return; prev is the slot's
\* record before the call
EnterCall(st, store, clock, profile, opts, prev) ==
  LET hemi    == hemiToDB(profile.hemisphereIn)
      anchors == AnchorsOf(opts.forceDate, clock)
      signAttempts ==
        buildSignAttemptsForDaily(profile.signIn, opts.allowTrueSignFallback)
      keys    == KeysInOrder(profile.userId, signAttempts, hemi, anchors)
      k       == IF CacheEnabled(opts.useCache)
                   THEN CacheFirstPass(st, store, keys)
                   ELSE 0
      again   == prev.pc = "done" /\ OptsOf(prev) = opts
      rec     == [IdleCall EXCEPT
                    !.signIn = profile.signIn,
                    !.hemisphereIn = profile.hemisphereIn,
                    !.userId = profile.userId, !.forceDate = opts.forceDate,
                    !.useCache = opts.useCache, !.debug = opts.debug,
                    !.allowTrueSignFallback = opts.allowTrueSignFallback,
                    !.hemi = hemi, !.anchors = anchors,
                    !.signAttempts = signAttempts,
                    !.again = again,
                    !.before = IF again THEN Remote(prev) ELSE 0,
                    !.beforeStage = IF again THEN prev.stage ELSE 0]
  IN IF k # 0
       THEN [rec EXCEPT !.pc = "done", !.stage = 1, !.key = keys[k],
                        !.result = getFromCache(st, store, keys[k])]
       ELSE BeginFetchRowsForDate(rec, 1)

\* The slot holds no call between its entry and its return
Returned(rec) == rec.pc \in {"idle", "done", "threw"}

\* A call of getDailyForecast in slot c with options of the set
StartWith(c, optsSet) ==
  /\ Returned(calls[c])
  /\ \E opts \in optsSet :
       calls' = [calls EXCEPT ![c] =
                   EnterCall(storage, localStorage,
                             [now |-> now, deviceZone |-> deviceZone,
                              intlKnown |-> intlKnown],
                             user, opts, calls[c])]
  /\ UNCHANGED <<compare, now, deviceZone, intlKnown, user, db, storage, localStorage>>

Start(c) == StartWith(c, OptsSet)

\* Mutant of AfterListError: an error of a date-scoped fetch ends the anchor
\* loop and the call goes to the fallback
AfterListErrorGivesUp(rec) == BeginFetchLatest([rec EXCEPT !.nErr = @ + 1])

\* if (error) continue
AfterListError(rec) == NextAnchor([rec EXCEPT !.nErr = @ + 1])

\* The date-scoped query of the current anchor answers with an error
ListError(c) ==
  /\ calls[c].pc = "awaitList"
  /\ calls' = [calls EXCEPT ![c] = AfterListError(calls[c])]
  /\ UNCHANGED <<compare, now, deviceZone, intlKnown, user, db, storage, localStorage>>

\* Mutant of MatchKey: the key is built from the input label and the first
\* anchor
MatchKeyOfInput(rec, cand, dateStr) ==
  cacheKeyDaily(rec.userId, rec.signIn, rec.hemi, rec.anchors[1])

\* The key a date-scoped match is cached under
MatchKey(rec, cand, dateStr) == cacheKeyDaily(rec.userId, cand, rec.hemi, dateStr)

\* Mutant of ProbeWanted: the probe is queried whatever the debug flag
ProbeWantedAlways(rows, debug) == rows = {}

\* if (!rows.length && debug): the visibility probe is queried
ProbeWanted(rows, debug) == rows = {} /\ debug

\* The date-scoped query of the current anchor answers with rows
ListRows(c) ==
  LET rec     == calls[c]
      dateStr == rec.anchors[rec.i]
      rows    == {MapRow(r) : r \in RowsForDate(db, dateStr, rec.hemi)}
      k       == FirstMatchingAttempt(rows, rec.signAttempts)
  IN /\ rec.pc = "awaitList"
     /\ IF ProbeWanted(rows, rec.debug)
          THEN /\ calls' = [calls EXCEPT ![c] =
                              [rec EXCEPT !.pc = "awaitProbe", !.nProbe = @ + 1]]
               /\ UNCHANGED localStorage
          ELSE IF rows = {} \/ k = 0
            THEN /\ calls' = [calls EXCEPT ![c] = NextAnchor(rec)]
                 /\ UNCHANGED localStorage
            ELSE \E hit \in FindRows(rows, rec.signAttempts[k]) :
                   LET clean == MapRow(hit)
                       key   == MatchKey(rec, rec.signAttempts[k], dateStr)
                   IN /\ localStorage' =
                           setInCache(storage, localStorage, key, clean)
                      /\ calls' = [calls EXCEPT ![c] =
                                     [rec EXCEPT !.pc = "done", !.stage = 2,
                                                 !.key = key,
                                                 !.cand = rec.signAttempts[k],
                                                 !.result = <<clean>>]]
     /\ UNCHANGED <<compare, now, deviceZone, intlKnown, user, db, storage>>

\* The visibility probe of a debugging call answers (rows or error: logged)
ProbeDone(c) ==
  /\ calls[c].pc = "awaitProbe"
  /\ calls' = [calls EXCEPT ![c] = NextAnchor(calls[c])]
  /\ UNCHANGED <<compare, now, deviceZone, intlKnown, user, db, storage, localStorage>>

\* The latest-rows query answers with an error: if (error || ...) return null
LatestError(c) ==
  /\ calls[c].pc = "awaitLatest"
  /\ calls' = [calls EXCEPT ![c] =
                 [calls[c] EXCEPT !.pc = "done", !.latestErr = TRUE]]
  /\ UNCHANGED <<compare, now, deviceZone, intlKnown, user, db, storage, localStorage>>

\* Mutant of StoreAfterLatest: the fallback result is cached under the first
\* anchor
StoreAfterLatestCaches(st, store, rec, row) ==
  setInCache(st, store,
             cacheKeyDaily(rec.userId, rec.cand, rec.hemi, rec.anchors[1]), row)

\* The store after the latest-rows fallback returned `row` for the call
StoreAfterLatest(st, store, rec, row) == store

\* The latest-rows query answers with rows
LatestRows(c) ==
  LET rec == calls[c]
  IN /\ rec.pc = "awaitLatest"
     /\ \E data \in LatestWindows(db, rec.hemi) :
          LET k == FirstMatchingAttempt(data, rec.signAttempts)
          IN IF data = {} \/ k = 0
               THEN /\ calls' = [calls EXCEPT ![c] = [rec EXCEPT !.pc = "done"]]
                    /\ UNCHANGED localStorage
               ELSE \E match \in FindLatestRows(data, rec.signAttempts[k]) :
                      /\ calls' = [calls EXCEPT ![c] =
                                     [rec EXCEPT !.pc = "done", !.stage = 3,
                                                 !.cand = rec.signAttempts[k],
                                                 !.result = <<MapRow(match)>>]]
                      /\ localStorage' =
                           StoreAfterLatest(storage, localStorage, rec,
                                            MapRow(match))
     /\ UNCHANGED <<compare, now, deviceZone, intlKnown, user, db, storage>>

\* ==========================================================================
\* Specification: the calls of one screen, one after the other
\* ==========================================================================
Init ==
  /\ \E clock \in Clocks :
       /\ now = clock.now
       /\ deviceZone = clock.deviceZone
       /\ intlKnown = clock.intlKnown
  /\ user \in Profiles
  /\ db \in {rows \in SUBSET CandidateRows : Cardinality(rows) <= MaxRows}
  /\ storage = "ok"
  /\ localStorage = <<>>
  /\ calls = [c \in Calls |-> IdleCall]
  /\ compare = NoCompare

\* The slot the sequential calls run in
Screen == 1

Next ==
  \/ Start(Screen)
  \/ ListError(Screen)
  \/ ListRows(Screen)
  \/ ProbeDone(Screen)
  \/ LatestError(Screen)
  \/ LatestRows(Screen)

Spec == Init /\ [][Next]_vars

\* ==========================================================================
\* Properties
\* ==========================================================================
\* The step of slot c is the entry of a call
Entered(c) == Returned(calls[c]) /\ calls'[c] # calls[c]

\* The entry under `key` is present and well-formed in the store
Usable(store, key) ==
  /\ key \in DOMAIN store
  /\ store[key][1] = "json"
  /\ store[key][2].date # NoDate
  /\ store[key][2].hemisphere # <<>>
  /\ store[key][2].sign # <<>>

\* The cache key of a call for attempt s and anchor a
KeyFor(rec, s, a) ==
  <<"daily", IF rec.userId = Undef THEN "anon" ELSE rec.userId,
    rec.signAttempts[s], rec.hemi, rec.anchors[a]>>

\* Attempt s at anchor a comes before attempt t at anchor b in the order
\* "anchors outside, attempts inside"
Before(a, s, b, t) == a < b \/ (a = b /\ s < t)

\* C1: a call with caching enabled that finds a present, well-formed cache
\* entry returns at once the first such entry in the order anchors outside,
\* attempts inside, and a call that returned from the cache has issued no
\* remote query.
C1_CacheHitReturnsWithoutRemote ==
  [][\A c \in Calls :
       LET n == calls'[c]
       IN /\ (n.stage = 1 => n.pc = "done" /\ Remote(n) = 0)
          /\ (Entered(c) /\ CacheEnabled(n.useCache)) =>
               \A a \in 1..Len(n.anchors), s \in 1..Len(n.signAttempts) :
                 (/\ Usable(localStorage, KeyFor(n, s, a))
                  /\ \A b \in 1..Len(n.anchors), t \in 1..Len(n.signAttempts) :
                       Before(b, t, a, s) =>
                         ~Usable(localStorage, KeyFor(n, t, b)))
                 => /\ n.pc = "done"
                    /\ n.stage = 1
                    /\ n.result = <<localStorage[KeyFor(n, s, a)][2]>>
                    /\ Remote(n) = 0]_vars

\* C1 witness: a call returned a cache entry that was not the only usable
\* one among its keys, nor under its first key.
C1_Witness ==
  \E c \in Calls :
    LET rec == calls[c]
    IN /\ rec.pc = "done" /\ rec.stage = 1
       /\ rec.key # KeyFor(rec, 1, 1)
       /\ \E a \in 1..Len(rec.anchors), s \in 1..Len(rec.signAttempts) :
            KeyFor(rec, s, a) # rec.key /\ Usable(localStorage, KeyFor(rec, s, a))

\* C2 as stated: two calls in immediate succession with the same arguments
\* and caching enabled issue at most one remote query together, and the
\* second is a cache hit.
C2_AtMostOneRemoteInTwoCalls ==
  \A c \in Calls :
    LET rec == calls[c]
    IN (rec.pc = "done" /\ rec.again /\ CacheEnabled(rec.useCache))
         => rec.before + Remote(rec) <= 1 /\ rec.stage = 1

\* C2 amended: when the first of the two calls returned a record from the
\* cache or from the date-scoped stage, and the Cache Store is available, the
\* second call is a cache hit that issues no remote query; the two calls
\* together issue the remote queries of the first, at most one date-scoped
\* query and one probe per anchor.
C2_SecondCallIsCacheHit ==
  \A c \in Calls :
    LET rec == calls[c]
    IN (/\ rec.pc # "idle" /\ rec.again /\ CacheEnabled(rec.useCache)
        /\ rec.beforeStage \in {1, 2} /\ storage = "ok")
         => /\ rec.pc = "done"
            /\ rec.stage = 1
            /\ Remote(rec) = 0
            /\ rec.before + Remote(rec) <= 2 * Len(rec.anchors)

\* C2 witness: the second call hit the cache after a first call that needed
\* more than one remote query to find its row.
C2_Witness ==
  \E c \in Calls :
    /\ calls[c].pc = "done" /\ calls[c].again
    /\ calls[c].beforeStage = 2 /\ calls[c].before >= 2
    /\ calls[c].stage = 1

\* C3: a remote error never ends a call: after a failed date-scoped fetch the
\* call goes on with the next anchor, so a call reaches the fallback or the
\* end of the stages only after one fetch for every anchor; a call throws only
\* for an anchor that is no date; and a call whose fetches all failed, the
\* fallback included, returns absent.
C3_RemoteErrorNeverFatal ==
  \A c \in Calls :
    LET rec == calls[c]
    IN /\ rec.nErr <= rec.nList
       /\ rec.nList <= Len(rec.anchors)
       /\ rec.pc = "threw" => ~DateParses(rec.anchors[rec.i])
       /\ (rec.pc = "awaitLatest" \/ (rec.pc = "done" /\ rec.stage \in {0, 3}))
            => rec.nList = Len(rec.anchors)
       /\ (rec.pc = "done" /\ rec.nErr = rec.nList /\ rec.latestErr)
            => rec.result = <<>>
       /\ (rec.pc = "done" /\ rec.stage = 2 /\ rec.nErr > 0)
            => \E r \in db : rec.result = <<MapRow(r)>>

\* C3 witness: every date-scoped fetch of a call over three anchors failed,
\* the fallback failed too, and the call returned absent.
C3_Witness ==
  \E c \in Calls :
    /\ calls[c].pc = "done" /\ calls[c].result = <<>>
    /\ Len(calls[c].anchors) = 3
    /\ calls[c].nErr = 3 /\ calls[c].latestErr

\* A match on a later anchor is returned after an earlier fetch failed.
C3_WitnessLaterAnchor ==
  \E c \in Calls :
    calls[c].pc = "done" /\ calls[c].stage = 2 /\ calls[c].nErr > 0

\* The first attempt of a call that some row of the set matches is attempt s
FirstMatch(rec, rows, s) ==
  /\ \E r \in rows : rowMatchesSign(r.sign, rec.signAttempts[s])
  /\ \A t \in 1..(s - 1) :
       \A r \in rows : ~rowMatchesSign(r.sign, rec.signAttempts[t])

\* C4: a call that returned a row of the date-scoped stage has stored the
\* returned record under the key of (user id or "anon", the attempt that
\* matched, the canonical hemisphere, the anchor that matched), and the cache
\* holds it there.
C4_MatchCachedUnderMatchedKey ==
  \A c \in Calls :
    LET rec == calls[c]
    IN (rec.pc = "done" /\ rec.stage = 2) =>
         \E s \in 1..Len(rec.signAttempts) :
           /\ FirstMatch(rec, RowsForDate(db, rec.anchors[rec.i], rec.hemi), s)
           /\ rec.cand = rec.signAttempts[s]
           /\ rec.key = KeyFor(rec, s, rec.i)
           /\ rec.hemi \in {Northern, Southern}
           /\ rec.key \in DOMAIN localStorage
           /\ localStorage[rec.key] = <<"json", rec.result[1]>>
           /\ \E r \in RowsForDate(db, rec.anchors[rec.i], rec.hemi) :
                /\ rowMatchesSign(r.sign, rec.cand)
                /\ rec.result[1].sign = r.sign
                /\ rec.result[1].daily_horoscope =
                     IF r.daily_horoscope = Null THEN "" ELSE r.daily_horoscope

\* C4 witness: the row matched an attempt that is not the input label, on an
\* anchor that is not the first.
C4_Witness ==
  \E c \in Calls :
    /\ calls[c].pc = "done" /\ calls[c].stage = 2
    /\ calls[c].cand # calls[c].signIn
    /\ calls[c].i > 1
    /\ calls[c].key \in DOMAIN localStorage

\* The rows of the hemisphere of a call that one of its attempts matches
MatchingRows(rec) ==
  {r \in db :
     /\ \E v \in {rec.hemi, toUpperCase(rec.hemi), toLowerCase(rec.hemi),
                  IF rec.hemi = Southern THEN SH ELSE NH} : r.hemisphere = v
     /\ \E s \in 1..Len(rec.signAttempts) :
          rowMatchesSign(r.sign, rec.signAttempts[s])}

\* C5: a call that found nothing in the cache and no matching row for any
\* anchor, and whose fallback query answers, returns a matching row of the
\* latest rows when there is one; and no step of a call other than a
\* date-scoped match changes the cache, so the fallback result is not cached.
C5_FallbackReturnsAndDoesNotCache ==
  [][\A c \in Calls :
       LET n == calls'[c]
       IN /\ (calls'[c] # calls[c] /\ ~(n.pc = "done" /\ n.stage = 2))
               => localStorage' = localStorage
          /\ (n.pc = "done" /\ n.stage \in {0, 3} /\ ~n.latestErr
              /\ MatchingRows(n) # {})
               => /\ n.stage = 3
                  /\ \E r \in MatchingRows(n) :
                       /\ n.result = <<MapRow(r)>>
                       /\ rowMatchesSign(r.sign, n.cand)
                       /\ \A q \in MatchingRows(n) :
                            rowMatchesSign(q.sign, n.cand) => q.date <= r.date]_vars

\* C5 witness: the fallback returned a row older than every anchor of the
\* call, and the cache holds no entry.
C5_Witness ==
  \E c \in Calls :
    /\ calls[c].pc = "done" /\ calls[c].stage = 3
    /\ Len(calls[c].anchors) = 3
    /\ \A a \in 1..3 :
         calls[c].result[1].date < calls[c].anchors[a] * HoursPerDay
    /\ DOMAIN localStorage = {}

\* C6 as stated: the hemisphere of every returned record is "Northern" or
\* "Southern".
C6_ReturnedHemisphereCanonical ==
  \A c \in Calls :
    (calls[c].pc = "done" /\ calls[c].result # <<>>)
      => calls[c].result[1].hemisphere \in {Northern, Southern}

\* C7: in every returned record, from the cache, the date-scoped stage or the
\* fallback, the three content fields are strings: the record is a row of the
\* table with every null content replaced by the empty string.
C7_ContentFieldsAreStrings ==
  \A c \in Calls :
    LET rec == calls[c]
    IN (rec.pc = "done" /\ rec.result # <<>>) =>
         /\ rec.result[1].daily_horoscope # Null
         /\ rec.result[1].affirmation # Null
         /\ rec.result[1].deeper_insight # Null
         /\ \E r \in db :
              /\ rec.result[1].sign = r.sign
              /\ rec.result[1].date = r.date
              /\ rec.result[1].daily_horoscope =
                   IF r.daily_horoscope = Null THEN "" ELSE r.daily_horoscope
              /\ rec.result[1].affirmation =
                   IF r.affirmation = Null THEN "" ELSE r.affirmation
              /\ rec.result[1].deeper_insight =
                   IF r.deeper_insight = Null THEN "" ELSE r.deeper_insight

\* C7 witness: a cache hit returned a record whose row has null contents.
C7_Witness ==
  \E c \in Calls :
    /\ calls[c].pc = "done" /\ calls[c].stage = 1
    /\ calls[c].result[1].daily_horoscope = ""
    /\ \E r \in db :
         /\ r.sign = calls[c].result[1].sign
         /\ r.date = calls[c].result[1].date
         /\ r.daily_horoscope = Null

\* C8 as stated: a call issues at most |anchors| + 1 remote queries, whatever
\* its options.
C8_AtMostAnchorsPlusOneQueries ==
  \A c \in Calls : Remote(calls[c]) <= Len(calls[c].anchors) + 1

\* C8 amended: a call issues at most one date-scoped query per anchor and at
\* most one fallback query, |anchors| + 1 remote queries without the debug
\* flag; with the debug flag it also issues one probe query after each
\* date-scoped fetch that answers with no rows, at most 2 * |anchors| + 1
\* remote queries.
C8_QueriesBoundedPerAnchor ==
  \A c \in Calls :
    LET rec == calls[c]
    IN /\ rec.nList <= Len(rec.anchors)
       /\ rec.nList <= rec.i
       /\ rec.nLatest <= 1
       /\ rec.nProbe <= rec.nList - rec.nErr
       /\ ~rec.debug => rec.nProbe = 0 /\ Remote(rec) <= Len(rec.anchors) + 1
       /\ rec.debug => Remote(rec) <= 2 * Len(rec.anchors) + 1

\* C8 witness: a debugging call over three anchors issued seven remote
\* queries.
C8_Witness ==
  \E c \in Calls :
    /\ calls[c].pc = "done" /\ calls[c].debug
    /\ Len(calls[c].anchors) = 3
    /\ Remote(calls[c]) = 7

\* A call without the debug flag issued |anchors| + 1 remote queries.
C8_WitnessNoDebug ==
  \E c \in Calls :
    /\ calls[c].pc = "done" /\ ~calls[c].debug
    /\ Remote(calls[c]) = Len(calls[c].anchors) + 1

\* Some row of anchor a of the call matches one of its attempts
AnchorHasMatch(rec, a) ==
  \E r \in RowsForDate(db, rec.anchors[a], rec.hemi) :
    \E s \in 1..Len(rec.signAttempts) :
      rowMatchesSign(r.sign, rec.signAttempts[s])

\* C9: the anchor decides before the attempt.  A record returned from the
\* cache is the entry of the first anchor that has a usable entry for any
\* attempt, and of the first such attempt at that anchor; a record returned
\* from the date-scoped stage, when no fetch failed, is a row of the first
\* anchor that has a row matching any attempt, and matches the first such
\* attempt.
C9_AnchorOuterOrdering ==
  \A c \in Calls :
    LET rec == calls[c]
    IN /\ (rec.pc = "done" /\ rec.stage = 1) =>
            \E a \in 1..Len(rec.anchors), s \in 1..Len(rec.signAttempts) :
              /\ rec.key = KeyFor(rec, s, a)
              /\ rec.result = <<localStorage[rec.key][2]>>
              /\ \A b \in 1..Len(rec.anchors), t \in 1..Len(rec.signAttempts) :
                   Usable(localStorage, KeyFor(rec, t, b))
                     => (a < b \/ (a = b /\ s <= t))
       /\ (rec.pc = "done" /\ rec.stage = 2 /\ rec.nErr = 0) =>
            /\ \A b \in 1..(rec.i - 1) : ~AnchorHasMatch(rec, b)
            /\ \E s \in 1..Len(rec.signAttempts) :
                 /\ FirstMatch(rec, RowsForDate(db, rec.anchors[rec.i], rec.hemi), s)
                 /\ rec.cand = rec.signAttempts[s]
                 /\ rowMatchesSign(rec.result[1].sign, rec.cand)

\* C9 witness: the cache holds an entry for a later attempt at an earlier
\* anchor and an entry for an earlier attempt at a later anchor, and the call
\* returned the entry of the earlier anchor.
C9_Witness ==
  \E c \in Calls :
    LET rec == calls[c]
    IN /\ rec.pc = "done" /\ rec.stage = 1
       /\ \E a, b \in 1..Len(rec.anchors), s, t \in 1..Len(rec.signAttempts) :
            /\ a < b /\ t < s
            /\ rec.key = KeyFor(rec, s, a)
            /\ Usable(localStorage, KeyFor(rec, t, b))

\* The same in the date-scoped stage: the row returned matches a later attempt
\* at an earlier anchor, and a later anchor has a row for an earlier attempt.
C9_WitnessRemote ==
  \E c \in Calls :
    LET rec == calls[c]
    IN /\ rec.pc = "done" /\ rec.stage = 2 /\ rec.nErr = 0
       /\ \E b \in (rec.i + 1)..Len(rec.anchors) :
            \E s, t \in 1..Len(rec.signAttempts) :
              /\ t < s
              /\ rec.cand = rec.signAttempts[s]
              /\ FirstMatch(rec, RowsForDate(db, rec.anchors[b], rec.hemi), t)
              /\ FirstMatch(rec, RowsForDate(db, rec.anchors[rec.i], rec.hemi), s)

\* C10: a call for "Gemini-Cancer Cusp" without allowTrueSignFallback, that
\* misses the cache and whose first fetch answers, returns in the date-scoped
\* stage the row of the first anchor (the local today) whose sign is spelled
\* with the en dash, when that is the row today has for the sign.
C10_HyphenLabelMatchesEnDashRow ==
  \A c \in Calls :
    LET rec   == calls[c]
        today == IF rec.anchors = <<>> THEN {}
                 ELSE RowsForDate(db, rec.anchors[1], rec.hemi)
    IN (/\ rec.pc = "done" /\ rec.stage # 1
        /\ rec.signIn = GemCanCuspHyphen /\ ~rec.allowTrueSignFallback
        /\ rec.forceDate = NoDate
        /\ rec.nErr = 0
        /\ \E r \in today : r.sign = GemCanCuspEnDash)
         => /\ rec.stage = 2
            /\ rec.i = 1
            /\ rec.result[1].sign = GemCanCuspEnDash
            /\ rec.nList = 1

\* C10 witness: such a call returned the en dash row.
C10_Witness ==
  \E c \in Calls :
    /\ calls[c].pc = "done" /\ calls[c].stage = 2
    /\ calls[c].signIn = GemCanCuspHyphen
    /\ ~calls[c].allowTrueSignFallback
    /\ calls[c].anchors[1] = ymdInTZ(now, deviceZone)
    /\ calls[c].result[1].sign = GemCanCuspEnDash

\* ==========================================================================
\* Specification: the calls of one screen over a faulty Cache Store
\* ==========================================================================
\* A stored text that JSON.parse rejects
Garbage == <<"garbage">>

\* A stored object that parses but has no date
IllFormedEntry ==
  JSONStringify([MapRow(Row(Aries, Northern, 72, "stale")) EXCEPT !.date = NoDate])

\* The profiles of the calls over the faulty store
FaultyProfiles ==
  {Profile(Aries, Northern, Undef), Profile(GemCanCuspHyphen, SH, "u1")}

\* What localStorage holds before the first call, by state of the medium: an
\* ill-formed entry under the first key the call reads and a corrupt text
\* under the key of the second anchor when it works, a corrupt text under the
\* first key when only its writes fail, nothing that can be read otherwise
PreloadedStore(st, clock, profile) ==
  LET hemi     == hemiToDB(profile.hemisphereIn)
      anchors  == buildDailyAnchors(clock.now, clock.deviceZone, clock.intlKnown)
      attempts == buildSignAttemptsForDaily(profile.signIn, FALSE)
      k1       == cacheKeyDaily(profile.userId, attempts[1], hemi, anchors[1])
      k2       == cacheKeyDaily(profile.userId, attempts[1], hemi, anchors[2])
  IN CASE st = "ok"   -> (k1 :> IllFormedEntry) @@ (k2 :> Garbage)
       [] st = "full" -> (k1 :> Garbage)
       [] OTHER       -> <<>>

StorageStates == {"ok", "absent", "throws", "full"}

InitFaulty ==
  /\ storage \in StorageStates
  /\ \E clock \in Clocks :
       /\ now = clock.now
       /\ deviceZone = clock.deviceZone
       /\ intlKnown = clock.intlKnown
       /\ user \in FaultyProfiles
       /\ localStorage = PreloadedStore(storage, clock, user)
  /\ db \in {rows \in SUBSET CandidateRows : Cardinality(rows) <= MaxRows}
  /\ calls = [c \in Calls |-> IdleCall]
  /\ compare = NoCompare

SpecFaulty == InitFaulty /\ [][Next]_vars

\* The entries of the store that a read returns as a hit: none when the
\* medium cannot be read, else those that parse and are well-formed
ReadableEntries(st, store) ==
  LET ks == IF st \in {"absent", "throws"}
              THEN {}
              ELSE {k \in DOMAIN store : Usable(store, k)}
  IN [k \in ks |-> store[k]]

\* C11: the Cache Store is best-effort.  A call over a store that is
\* unavailable, throws, or holds corrupt or ill-formed entries proceeds from
\* its entry exactly as over a store without these entries (the empty store
\* when the medium cannot be read); a put on a medium that is unavailable or
\* throws changes nothing and the call still returns its record; no call
\* throws because of the store; and the record of a date-scoped match is the
\* row the remote table has, as with an empty cache.
C11_CacheStoreBestEffort ==
  [][\A c \in Calls :
       LET n == calls'[c]
       IN /\ Entered(c) =>
               /\ n = EnterCall("ok", ReadableEntries(storage, localStorage),
                                [now |-> now, deviceZone |-> deviceZone,
                                 intlKnown |-> intlKnown],
                                user, OptsOf(n), calls[c])
               /\ (ReadableEntries(storage, localStorage) = <<>>) => n.stage # 1
          /\ storage # "ok" => localStorage' = localStorage
          /\ n.pc = "threw" => ~DateParses(n.anchors[n.i])
          /\ (n.pc = "done" /\ n.stage = 2) =>
               /\ \E r \in RowsForDate(db, n.anchors[n.i], n.hemi) :
                    n.result = <<MapRow(r)>> /\ rowMatchesSign(r.sign, n.cand)
               /\ storage = "ok" => localStorage'[n.key] = <<"json", n.result[1]>>]_vars

\* C11 witness: a call returned the row of the date-scoped stage although the
\* medium throws, and the store is as it was.
C11_Witness ==
  \E c \in Calls :
    /\ calls[c].pc = "done" /\ calls[c].stage = 2
    /\ storage = "throws"
    /\ calls[c].key \notin DOMAIN localStorage

\* A call over an ill-formed entry under its first key and a corrupt text
\* under the next returned the remote row and replaced one of them.
C11_WitnessCorrupt ==
  \E c \in Calls :
    /\ calls[c].pc = "done" /\ calls[c].stage = 2
    /\ storage = "ok"
    /\ \E k \in DOMAIN localStorage : localStorage[k] = Garbage
    /\ Usable(localStorage, calls[c].key)
    /\ calls[c].key = KeyFor(calls[c], 1, 1)

\* ==========================================================================
\* Specification: the day anchors, over instants, time zones and forced days
\* ==========================================================================
LastInstant == 110
InstantSpan == 26

\* The instants of the calls: the hours of a window that holds a midnight of
\* every zone and the day of zone "DST" that lasts 25 hours
AnchorInstants == (LastInstant - InstantSpan)..LastInstant

TimeZones == {"UTC", "East", "West", "DST"}

AnchorClocks ==
  {[now |-> t, deviceZone |-> z, intlKnown |-> k] :
     t \in AnchorInstants, z \in TimeZones, k \in BOOLEAN}

\* The options of the calls: no forced day, the empty string, a day that is
\* not among the days of the clock, one that is, and a string that is no date
AnchorOpts ==
  {Opts(NoDate, "unset", FALSE, FALSE),
   Opts(EmptyDate, "unset", FALSE, FALSE),
   Opts(2, "unset", TRUE, FALSE),
   Opts(4, "unset", FALSE, FALSE),
   Opts(BadDate, "unset", FALSE, FALSE)}

AnchorRows ==
  {Row(Aries, Northern, 96, "stars"), Row(Aries, NH, 48, Null)}

InitAnchors ==
  /\ \E clock \in AnchorClocks :
       /\ now = clock.now
       /\ deviceZone = clock.deviceZone
       /\ intlKnown = clock.intlKnown
  /\ user = Profile(Aries, Northern, Undef)
  /\ db \in {{}, AnchorRows}
  /\ storage = "ok"
  /\ localStorage = <<>>
  /\ calls = [c \in Calls |-> IdleCall]
  /\ compare = NoCompare

StartAnchors(c) == StartWith(c, AnchorOpts)

NextAnchors ==
  \/ StartAnchors(Screen)
  \/ ListError(Screen)
  \/ ListRows(Screen)
  \/ ProbeDone(Screen)
  \/ LatestError(Screen)
  \/ LatestRows(Screen)

SpecAnchors == InitAnchors /\ [][NextAnchors]_vars

C12_WitnessCached ==
  \E c \in Calls :
    /\ calls[c].pc = "done" /\ calls[c].forceDate = 4 /\ calls[c].stage = 2
    /\ calls[c].key \in DOMAIN localStorage

\* C13 as stated: without a forced day, at every instant and in every time
\* zone, the anchors start with today in the user's time zone, hold no day
\* twice, are between 3 and 5, and are the days local today, UTC today,
\* device-clock today, local yesterday, local tomorrow, in this order, each
\* at its first occurrence.
C13_AnchorsWellFormed ==
  \A c \in Calls :
    LET rec   == calls[c]
        today == ymdInTZ(now, getUserTimeZone(deviceZone, intlKnown))
    IN (rec.pc # "idle" /\ rec.forceDate = NoDate) =>
         /\ rec.anchors[1] = today
         /\ \A a, b \in 1..Len(rec.anchors) :
              rec.anchors[a] = rec.anchors[b] => a = b
         /\ Len(rec.anchors) >= 3
         /\ Len(rec.anchors) <= 5
         /\ rec.anchors =
              Dedup(<<today, anchorUTC(now), anchorLocal(now, deviceZone),
                      today - 1, today + 1>>)

\* ==========================================================================
\* Specification: rowMatchesSign over pairs of labels
\* ==========================================================================
SuffixCusp == <<" ", "C", "u", "s", "p">>
SuffixCuspLower == <<" ", "c", "u", "s", "p">>

\* The labels compared: the empty label, white space, plain and compound
\* signs in several cases and dash styles, with and without the suffix, and
\* the suffix word alone
Labels ==
  {<<>>, <<" ">>, Aries, toLowerCase(Aries), Aries \o SuffixCusp, Gemini,
   GemCanHyphen, GemCanCuspHyphen, GemCanCuspEnDash, GemCanMessy,
   <<"G","e","m","i","n","i","EM","C","a","n","c","e","r">>,
   toUpperCase(GemCanCuspEnDash), <<"C","u","s","p">>}

InitLabels ==
  /\ now = 68
  /\ deviceZone = "UTC"
  /\ intlKnown = TRUE
  /\ user = Profile(Aries, Northern, Undef)
  /\ db = {}
  /\ storage = "ok"
  /\ localStorage = <<>>
  /\ calls = [c \in Calls |-> IdleCall]
  /\ compare = NoCompare

\* rowMatchesSign(dbSign, attempt) is called
Compare ==
  /\ \E a \in Labels, b \in Labels :
       compare' = [called |-> TRUE, dbSign |-> a, attempt |-> b,
                   result |-> rowMatchesSign(a, b)]
  /\ UNCHANGED <<now, deviceZone, intlKnown, user, db, storage, localStorage,
                 calls>>

NextLabels == Compare

SpecLabels == InitLabels /\ [][NextLabels]_vars

\* The label with every dash written as d
WithDash(s, d) ==
  [i \in 1..Len(s) |-> IF s[i] \in {HYPHEN, ENDASH, EMDASH} THEN d ELSE s[i]]

\* The spellings of a label that differ in letter case or dash style only
CaseAndDashVariants(s) ==
  {toLowerCase(s), toUpperCase(s), WithDash(s, HYPHEN), WithDash(s, ENDASH),
   WithDash(s, EMDASH), toUpperCase(WithDash(s, EMDASH))}

\* The label ends with the word "cusp", in any case, before trailing space
EndsWithCusp(s) ==
  LET t == TrimRight(s)
  IN Len(t) >= 4 /\ toLowerCase(SubSeq(t, Len(t) - 3, Len(t))) = CuspWord

\* The label with the suffix " Cusp" or " cusp" appended
WithSuffix(s) == {s \o SuffixCusp, s \o SuffixCuspLower}

\* The label without its last five characters, when they are " Cusp" or
\* " cusp"
WithoutSuffix(s) ==
  IF Len(s) >= 5 /\ SubSeq(s, Len(s) - 4, Len(s)) \in {SuffixCusp, SuffixCuspLower}
    THEN {SubSeq(s, 1, Len(s) - 5)}
    ELSE {}

\* C14 as stated: rowMatchesSign is reflexive and symmetric over all labels,
\* and its result does not change when either argument changes in letter
\* case, in dash style, or gets or loses a trailing " Cusp" / " cusp".
C14_EquivalenceOverAllLabels ==
  LET a == compare.dbSign
      b == compare.attempt
      r == compare.result
  IN compare.called =>
       /\ a = b => r = TRUE
       /\ rowMatchesSign(b, a) = r
       /\ \A v \in CaseAndDashVariants(a) \cup WithSuffix(a) \cup WithoutSuffix(a) :
            rowMatchesSign(v, b) = r
       /\ \A v \in CaseAndDashVariants(b) \cup WithSuffix(b) \cup WithoutSuffix(b) :
            rowMatchesSign(a, v) = r

\* C14 amended: rowMatchesSign is symmetric over all labels and reflexive
\* over the labels that are not empty (the empty label matches nothing, not
\* even itself); its result does not change when either argument changes in
\* letter case or in dash style, when " Cusp" or " cusp" is appended to an
\* argument that is not empty and does not end with the word cusp already, or
\* when that suffix is taken off an argument and what is left is not empty
\* and does not end with the word cusp.
C14_EquivalenceOverNonEmptyLabels ==
  LET a == compare.dbSign
      b == compare.attempt
      r == compare.result
      Suffixed(s) == IF s # <<>> /\ ~EndsWithCusp(s) THEN WithSuffix(s) ELSE {}
      Unsuffixed(s) == {t \in WithoutSuffix(s) : t # <<>> /\ ~EndsWithCusp(t)}
  IN compare.called =>
       /\ (a = b /\ a # <<>>) => r = TRUE
       /\ (a = <<>> \/ b = <<>>) => r = FALSE
       /\ rowMatchesSign(b, a) = r
       /\ \A v \in CaseAndDashVariants(a) \cup Suffixed(a) \cup Unsuffixed(a) :
            rowMatchesSign(v, b) = r
       /\ \A v \in CaseAndDashVariants(b) \cup Suffixed(b) \cup Unsuffixed(b) :
            rowMatchesSign(a, v) = r

\* C14 witness: two labels that differ in case, dash style, white space and
\* suffix were compared and found equivalent.
C14_Witness ==
  /\ compare.called
  /\ compare.dbSign = GemCanMessy
  /\ compare.attempt = GemCanHyphen
  /\ compare.result = TRUE

\* ==========================================================================
\* Specification: the calls of one screen while the days pass
\* ==========================================================================
RolloverDays == 2

\* The last instant of the clock
LastRollover == 68 + RolloverDays * HoursPerDay

\* Rows of one sign for three days in a row, and one of another sign
RolloverRows ==
  {Row(Aries, Northern, 72, "stars"),
   Row(Aries, Northern, 96, "moon"),
   Row(Aries, NH, 120, Null),
   Row(Gemini, toLowerCase(Southern), 96, "tides")}

InitRollover ==
  /\ \E clock \in Clocks :
       /\ now = clock.now
       /\ deviceZone = clock.deviceZone
       /\ intlKnown = clock.intlKnown
  /\ user = Profile(Aries, Northern, Undef)
  /\ db \in {rows \in SUBSET RolloverRows : Cardinality(rows) >= 2}
  /\ storage = "ok"
  /\ localStorage = <<>>
  /\ calls = [c \in Calls |-> IdleCall]
  /\ compare = NoCompare

\* A day passes between two calls; the cache keeps its entries
AdvanceDay ==
  /\ Returned(calls[Screen])
  /\ now + HoursPerDay <= LastRollover
  /\ now' = now + HoursPerDay
  /\ UNCHANGED <<compare, deviceZone, intlKnown, user, db, storage,
                 localStorage, calls>>

NextRollover ==
  \/ Start(Screen)
  \/ ListError(Screen)
  \/ ListRows(Screen)
  \/ ProbeDone(Screen)
  \/ LatestError(Screen)
  \/ LatestRows(Screen)
  \/ AdvanceDay

SpecRollover == InitRollover /\ [][NextRollover]_vars

\* C15 as stated: a call made after the day rolled over, without a forced
\* day, whose remote fetches do not fail, returns a record of the new local
\* today when the remote table has a matching row for it, whatever entries
\* of earlier days the cache holds.
C15_StaleEntriesHarmless ==
  \A c \in Calls :
    LET rec   == calls[c]
        today == ymdInTZ(now, getUserTimeZone(deviceZone, intlKnown))
    IN (/\ rec.pc = "done" /\ rec.forceDate = NoDate /\ rec.nErr = 0
        /\ rec.anchors[1] = today
        /\ AnchorHasMatch(rec, 1))
         => /\ rec.result # <<>>
            /\ rec.result[1].date >= today * HoursPerDay
            /\ rec.result[1].date < (today + 1) * HoursPerDay

\* ==========================================================================
\* Properties of the stages, the attempts and the cache flag (Spec)
\* ==========================================================================
\* The anchors among the first k of a call that have a matching row
AnchorsWithMatch(rec, k) == {a \in 1..k : AnchorHasMatch(rec, a)}

\* C16: within a call the date-scoped queries are issued one at a time in
\* the order of the anchors, each after the answer to the one before, and
\* only while no earlier anchor has produced a match; the fallback query is
\* issued once, after the answer to the date-scoped query of the last
\* anchor, when no anchor produced a match (an anchor with a matching row
\* produced none only if its fetch failed); a call that returned a
\* date-scoped match issued no query for a later anchor and no fallback.
C16_StrictStaging ==
  [][\A c \in Calls :
       LET o == calls[c]
           n == calls'[c]
       IN /\ (n.pc = "awaitList" /\ (o.pc # "awaitList" \/ n.i # o.i)) =>
               /\ n.nList = n.i
               /\ n.nLatest = 0
               /\ n.stage = 0
               /\ Entered(c) => n.i = 1
               /\ ~Entered(c) =>
                    o.pc \in {"awaitList", "awaitProbe"} /\ n.i = o.i + 1
               /\ Cardinality(AnchorsWithMatch(n, n.i - 1)) <= n.nErr
          /\ (n.pc = "awaitLatest" /\ o.pc # "awaitLatest") =>
               /\ o.pc \in {"awaitList", "awaitProbe"}
               /\ o.i = Len(o.anchors)
               /\ n.nList = Len(n.anchors)
               /\ n.nLatest = 1
               /\ n.stage = 0
               /\ Cardinality(AnchorsWithMatch(n, Len(n.anchors))) <= n.nErr
          /\ (n.pc = "done" /\ n.stage = 2) =>
               /\ n.nList = n.i
               /\ n.nLatest = 0
               /\ AnchorHasMatch(n, n.i)
          /\ (n.pc = "done" /\ n.stage = 1) => Remote(n) = 0
          /\ (n.pc = "done" /\ n.stage \in {0, 3}) =>
               n.nList = Len(n.anchors) /\ n.nLatest = 1]_vars

\* C16 witness: a call without a failed fetch queried its three anchors, then
\* the fallback, and returned the row of the fallback.
C16_Witness ==
  \E c \in Calls :
    /\ calls[c].pc = "done" /\ calls[c].stage = 3
    /\ calls[c].nList = 3 /\ calls[c].nErr = 0 /\ calls[c].nLatest = 1

\* A call returned the match of its second anchor and left the third alone.
C16_WitnessEarlyMatch ==
  \E c \in Calls :
    /\ calls[c].pc = "done" /\ calls[c].stage = 2
    /\ calls[c].i = 2 /\ calls[c].nList = 2 /\ Len(calls[c].anchors) = 3
    /\ calls[c].nErr = 0

GemCanEnDash == <<"G","e","m","i","n","i","EN","C","a","n","c","e","r">>
Cancer == <<"C","a","n","c","e","r">>

\* The rows of the table in one of the spellings of the hemisphere of a call
RowsOfRegion(rec) ==
  {r \in db :
     r.hemisphere \in {rec.hemi, toUpperCase(rec.hemi), toLowerCase(rec.hemi),
                       IF rec.hemi = Southern THEN SH ELSE NH}}

\* C17: for a compound label with the cusp marker and allowTrueSignFallback
\* off, the attempts are the four compound spellings and no component, and
\* over a table whose only rows for the region carry a component as sign the
\* call returns absent after every stage; with the flag on the components
\* follow the four compound spellings, for a compound label without the
\* marker they follow the two compound spellings, and the call then returns
\* the row of the component.
C17_ComponentFallbackGated ==
  \A c \in Calls :
    LET rec     == calls[c]
        marked  == rec.signIn \in {GemCanCuspHyphen, GemCanMessy}
        only    == /\ RowsOfRegion(rec) # {}
                   /\ \A r \in RowsOfRegion(rec) : r.sign \in {Gemini, Cancer}
    IN rec.pc # "idle" =>
         /\ (marked /\ ~rec.allowTrueSignFallback) =>
              /\ rec.signAttempts =
                   <<GemCanCuspEnDash, GemCanCuspHyphen, GemCanEnDash, GemCanHyphen>>
              /\ (rec.pc = "done" /\ only) =>
                   /\ rec.result = <<>>
                   /\ rec.stage = 0
                   /\ rec.nList = Len(rec.anchors)
                   /\ rec.nLatest = 1
         /\ (marked /\ rec.allowTrueSignFallback) =>
              rec.signAttempts =
                <<GemCanCuspEnDash, GemCanCuspHyphen, GemCanEnDash, GemCanHyphen,
                  Gemini, Cancer>>
         /\ rec.signIn = GemCanHyphen =>
              rec.signAttempts = <<GemCanEnDash, GemCanHyphen, Gemini, Cancer>>
         /\ (/\ rec.signIn \in {GemCanCuspHyphen, GemCanMessy, GemCanHyphen}
             /\ (rec.signIn = GemCanHyphen \/ rec.allowTrueSignFallback)
             /\ rec.pc = "done" /\ only /\ rec.nErr = 0 /\ ~rec.latestErr
             /\ rec.forceDate = NoDate) =>
              /\ rec.result # <<>>
              /\ rec.result[1].sign \in {Gemini, Cancer}

\* C17 witness: a call for "Gemini-Cancer Cusp" with the flag off went
\* through every stage without a failed fetch over a table whose only row
\* for the region is a "Gemini" row of today, and returned absent.
C17_Witness ==
  \E c \in Calls :
    LET rec == calls[c]
    IN /\ rec.pc = "done" /\ rec.signIn = GemCanCuspHyphen
       /\ ~rec.allowTrueSignFallback
       /\ rec.forceDate = NoDate
       /\ RowsOfRegion(rec) # {}
       /\ \A r \in RowsOfRegion(rec) :
            r.sign = Gemini /\ r.date \div HoursPerDay = rec.anchors[1]
       /\ rec.nErr = 0 /\ ~rec.latestErr /\ rec.nLatest = 1
       /\ rec.result = <<>>

\* The same table gives the "Gemini" row when the flag is on.
C17_WitnessAllowed ==
  \E c \in Calls :
    LET rec == calls[c]
    IN /\ rec.pc = "done" /\ rec.signIn = GemCanCuspHyphen
       /\ rec.allowTrueSignFallback
       /\ \A r \in RowsOfRegion(rec) : r.sign = Gemini
       /\ rec.stage = 2
       /\ rec.result[1].sign = Gemini

\* C19: a call with useCache false proceeds from its entry as over an empty
\* cache, whatever the cache holds: it returns nothing from the cache and
\* issues its first date-scoped query; and a date-scoped match writes the
\* returned record under the key of the matched attempt and anchor, with
\* useCache false as with useCache true or unset.
C19_FlagGatesOnlyTheLookup ==
  [][\A c \in Calls :
       LET n == calls'[c]
       IN /\ (Entered(c) /\ n.useCache = "false") =>
               /\ n = EnterCall(storage, <<>>,
                                [now |-> now, deviceZone |-> deviceZone,
                                 intlKnown |-> intlKnown],
                                user, OptsOf(n), calls[c])
               /\ n.stage # 1
               /\ n.pc \in {"awaitList", "threw"}
          /\ n.useCache = "false" => n.stage # 1
          /\ (calls[c].pc = "awaitList" /\ n.pc = "done" /\ n.stage = 2) =>
               /\ n.key = cacheKeyDaily(n.userId, n.cand, n.hemi, n.anchors[n.i])
               /\ localStorage' =
                    [k \in DOMAIN localStorage \cup {n.key} |->
                       IF k = n.key THEN <<"json", n.result[1]>>
                                    ELSE localStorage[k]]]_vars

\* C19 witness: a call with useCache false found in the remote table, and
\* wrote to the cache, the record that the call before it had already cached
\* under the same key.
C19_Witness ==
  \E c \in Calls :
    LET rec == calls[c]
    IN /\ rec.pc = "done" /\ rec.useCache = "false" /\ rec.stage = 2
       /\ rec.again /\ rec.beforeStage = 2
       /\ Remote(rec) >= 1
       /\ Usable(localStorage, rec.key)

\* ==========================================================================
\* Specification: two concurrent calls over one cache
\* ==========================================================================
\* The options of the concurrent calls
ConcurrentOpts ==
  {Opts(NoDate, "unset", FALSE, FALSE), Opts(NoDate, "unset", TRUE, TRUE)}

\* The one call of slot c
StartOnce(c) ==
  /\ calls[c].pc = "idle"
  /\ StartWith(c, ConcurrentOpts)

\* Each call runs from one await to the next without interruption; the calls
\* interleave at their awaits
NextConcurrent ==
  \E c \in Calls :
    \/ StartOnce(c)
    \/ ListError(c)
    \/ ListRows(c)
    \/ ProbeDone(c)
    \/ LatestError(c)
    \/ LatestRows(c)

\* The profiles of the concurrent calls
ConcurrentProfiles ==
  {Profile(GemCanCuspHyphen, SH, "u1"), Profile(GemCanHyphen, <<>>, Undef)}

InitConcurrent ==
  /\ \E clock \in Clocks :
       /\ now = clock.now
       /\ deviceZone = clock.deviceZone
       /\ intlKnown = clock.intlKnown
  /\ user \in ConcurrentProfiles
  /\ db \in {rows \in SUBSET CandidateRows : Cardinality(rows) <= MaxRows}
  /\ storage = "ok"
  /\ localStorage = <<>>
  /\ calls = [c \in Calls |-> IdleCall]
  /\ compare = NoCompare

SpecConcurrent == InitConcurrent /\ [][NextConcurrent]_vars

\* The first anchor of a call that has a matching row, 0 when none has
FirstAnchorWithMatch(rec) ==
  IF AnchorsWithMatch(rec, Len(rec.anchors)) = {}
    THEN 0
    ELSE CHOOSE a \in AnchorsWithMatch(rec, Len(rec.anchors)) :
           \A b \in AnchorsWithMatch(rec, Len(rec.anchors)) : a <= b

\* C18: two calls with the same arguments and options that ran concurrently
\* over the same table, both answered without a failed fetch, return equal
\* records, whatever the interleaving; when the record is a date-scoped
\* match, the cache holds in the end the one entry a single call leaves, the
\* record under the key of the matched attempt and of the first anchor that
\* has a match, and two puts of the race wrote that same key; otherwise the
\* cache is left empty.
C18_ConcurrentCallsAgree ==
  LET a == calls[1]
      b == calls[2]
  IN (/\ a.pc = "done" /\ b.pc = "done"
      /\ OptsOf(a) = OptsOf(b)
      /\ a.nErr = 0 /\ b.nErr = 0 /\ ~a.latestErr /\ ~b.latestErr)
       => /\ a.result = b.result
          /\ (a.stage \in {1, 2}) <=> (b.stage \in {1, 2})
          /\ a.stage \in {1, 2} =>
               /\ a.key = b.key
               /\ a.key[5] = a.anchors[FirstAnchorWithMatch(a)]
               /\ DOMAIN localStorage = {a.key}
               /\ localStorage[a.key] = <<"json", a.result[1]>>
               /\ a.stage = 2 \/ b.stage = 2
          /\ a.stage \in {0, 3} => localStorage = <<>>

\* C18 witness: both calls missed the cache, both queried the remote table
\* and both wrote the entry.
C18_Witness ==
  /\ calls[1].pc = "done" /\ calls[2].pc = "done"
  /\ OptsOf(calls[1]) = OptsOf(calls[2])
  /\ calls[1].stage = 2 /\ calls[2].stage = 2
  /\ calls[1].nList >= 2 /\ calls[2].nList >= 2
  /\ calls[1].nErr = 0 /\ calls[2].nErr = 0
  /\ calls[1].key \in DOMAIN localStorage

\* One call hit at its entry the cache entry the other had written.
C18_WitnessHit ==
  /\ calls[1].pc = "done" /\ calls[2].pc = "done"
  /\ OptsOf(calls[1]) = OptsOf(calls[2])
  /\ calls[1].stage = 2 /\ calls[2].stage = 1

\* ==========================================================================
\* Specification: the calls of one screen, every awaited fetch answered
\* ==========================================================================
\* Each remote query that a call awaits is answered in the end, with rows or
\* with an error; nothing makes a screen call again
SpecFair ==
  /\ Spec
  /\ WF_vars(ListError(Screen) \/ ListRows(Screen))
  /\ WF_vars(ProbeDone(Screen))
  /\ WF_vars(LatestError(Screen) \/ LatestRows(Screen))

\* C20 as stated: every call that was made returns in the end, a record or
\* absent.
C20_EveryCallReturns ==
  \A c \in Calls : [](calls[c].pc # "idle" => <>(calls[c].pc = "done"))

\* Every call that awaits a fetch comes to its end: it returns, a record or
\* absent.
C20_AwaitingCallReturns ==
  \A c \in Calls :
    [](calls[c].pc \in {"awaitList", "awaitProbe", "awaitLatest"}
         => <>(calls[c].pc = "done"))

\* A call reads at most |anchors| x |attempts| cache keys, issues at most one
\* date-scoped query per anchor, one probe per answered date-scoped query and
\* one fallback query, and never queries an anchor again: the anchor of a call
\* only moves forward.
C20_NoRetryBoundedWork ==
  [][\A c \in Calls :
       LET o == calls[c]
           n == calls'[c]
       IN /\ Len(KeysInOrder(n.userId, n.signAttempts, n.hemi, n.anchors))
               = Len(n.anchors) * Len(n.signAttempts)
          /\ n.nList <= Len(n.anchors)
          /\ n.nProbe <= n.nList
          /\ n.nLatest <= 1
          /\ ~Entered(c) =>
               /\ n.i >= o.i
               /\ n.nList - o.nList = n.i - o.i
               /\ n.nList - o.nList <= 1
               /\ n.nLatest - o.nLatest <= 1
               /\ Remote(n) - Remote(o) <= 1]_vars

\* A call threw: its forced day is no date.
C20_WitnessThrew ==
  \E c \in Calls : calls[c].pc = "threw" /\ calls[c].forceDate = BadDate

====
